---- MODULE Spec2Model ----
(***************************************************************************)
(* A model of bot.py: the per-chat percentage plan kept in user_data, the  *)
(* handlers that change it, the routing of updates to those handlers and   *)
(* the persistence of user_data in DATA_FILE.                              *)
(*                                                                         *)
(* Strings are sequences of one-character strings, so that str(), int(),   *)
(* strip(), capitalize() and the regular expression of handle_text are     *)
(* computed and not assumed.                                               *)
(***************************************************************************)
EXTENDS Integers, Sequences, FiniteSets, TLC

VARIABLES
    user_data,   \* the in-memory dict: chat id -> plan
    file,        \* what DATA_FILE holds on disk
    tmp,         \* what the temporary file of the save in progress holds
                 \* (Missing when no save is in progress: a file a failed
                 \* save or a crash leaves behind is never opened again)
    conv,        \* ConversationHandler state per (chat, user) key
    task,        \* position of the handler running for each key
    out,         \* history: the latest operation and its outcome
    applied,     \* history: per chat, the entry the latest change of its plan
                 \* added, if that change was an add
    failed_saves,  \* history: how many save attempts raised since the last
                   \* one that did not (or since the process started)
    concurrent_updates,  \* Application.concurrent_updates (fixed at build)
    process      \* the process: "starting" (line 53 not yet run), "running",
                 \* or "aborted" (an exception left the module's top level)

vars ==
    <<user_data, file, tmp, conv, task, out, applied, failed_saves,
      concurrent_updates, process>>

----------------------------------------------------------------------------
(* Characters and strings                                                  *)

Digits == <<"0", "1", "2", "3", "4", "5", "6", "7", "8", "9">>
Lowers == <<"a", "b", "f", "n", "o", "r", "t">>
Uppers == <<"A", "B", "F", "N", "O", "R", "T">>

IsDigit(c) == \E i \in 1..Len(Digits) : Digits[i] = c
IsSpace(c) == c = " "
DigitVal(c) == (CHOOSE i \in 1..Len(Digits) : Digits[i] = c) - 1

ToUpper(c) ==
    IF \E i \in 1..Len(Lowers) : Lowers[i] = c
    THEN Uppers[CHOOSE i \in 1..Len(Lowers) : Lowers[i] = c]
    ELSE c

ToLower(c) ==
    IF \E i \in 1..Len(Uppers) : Uppers[i] = c
    THEN Lowers[CHOOSE i \in 1..Len(Uppers) : Uppers[i] = c]
    ELSE c

SetMin(S) == CHOOSE x \in S : \A y \in S : x <= y
SetMax(S) == CHOOSE x \in S : \A y \in S : y <= x

\* s[i..]
From(s, i) == SubSeq(s, i, Len(s))

\* str.strip(): leading and trailing whitespace removed
Strip(s) ==
    LET ns == {i \in 1..Len(s) : ~IsSpace(s[i])}
    IN  IF ns = {} THEN <<>> ELSE SubSeq(s, SetMin(ns), SetMax(ns))

\* str.capitalize(): first character upper case, the rest lower case
Capitalize(s) ==
    [i \in 1..Len(s) |-> IF i = 1 THEN ToUpper(s[i]) ELSE ToLower(s[i])]

\* the value of a sequence of decimal digits
RECURSIVE DecVal(_)
DecVal(ds) ==
    IF ds = <<>> THEN 0
    ELSE 10 * DecVal(SubSeq(ds, 1, Len(ds) - 1)) + DigitVal(ds[Len(ds)])

\* the decimal digits of a natural number
RECURSIVE NatStr(_)
NatStr(n) ==
    IF n < 10 THEN <<Digits[n + 1]>>
    ELSE Append(NatStr(n \div 10), Digits[(n % 10) + 1])

\* str(k) of an int
PyStr(k) == IF k < 0 THEN <<"-">> \o NatStr(-k) ELSE NatStr(k)

\* int(s) of a str, which allows whitespace around the number and a sign:
\* [ok, val]; ok = FALSE stands for ValueError
\* (a variant that drops the sign)
PyIntNoSign(s) ==
    LET t    == Strip(s)
        body == IF t # <<>> /\ t[1] \in {"-", "+"} THEN Tail(t) ELSE t
    IN  IF body # <<>> /\ \A i \in 1..Len(body) : IsDigit(body[i])
        THEN [ok |-> TRUE, val |-> DecVal(body)]
        ELSE [ok |-> FALSE, val |-> 0]
PyInt(s) ==
    LET t    == Strip(s)
        body == IF t # <<>> /\ t[1] \in {"-", "+"} THEN Tail(t) ELSE t
        neg  == t # <<>> /\ t[1] = "-"
    IN  IF body # <<>> /\ \A i \in 1..Len(body) : IsDigit(body[i])
        THEN [ok |-> TRUE, val |-> IF neg THEN -DecVal(body) ELSE DecVal(body)]
        ELSE [ok |-> FALSE, val |-> 0]

----------------------------------------------------------------------------
(* The regular expression of handle_text,                                  *)
(*     (\d+)\s*%?\s*(?:for|on|to)?\s*(.+)      with re.I, by re.search      *)

\* s with its leading whitespace removed (a greedy \s*)
SkipWs(s) ==
    LET ns == {i \in 1..Len(s) : ~IsSpace(s[i])}
    IN  IF ns = {} THEN <<>> ELSE From(s, SetMin(ns))

\* an optional literal %
SkipPct(s) == IF s # <<>> /\ s[1] = "%" THEN Tail(s) ELSE s

StartsWithI(s, w) ==
    /\ Len(s) >= Len(w)
    /\ \A i \in 1..Len(w) : ToLower(s[i]) = w[i]

\* the length of the connector word s starts with (0: none)
ConnLen(s) ==
    IF StartsWithI(s, <<"f", "o", "r">>) THEN 3
    ELSE IF StartsWithI(s, <<"o", "n">>) THEN 2
    ELSE IF StartsWithI(s, <<"t", "o">>) THEN 2
    ELSE 0

\* group 2, given the text r that follows group 1 (r is not empty and does
\* not end in whitespace): the greedy match of the optional parts, and, when
\* that leaves nothing for (.+), the match after backtracking, which gives
\* back the connector if one was taken and the % otherwise.
Group2(r) ==
    LET a    == SkipWs(SkipPct(SkipWs(r)))
        n    == ConnLen(a)
        rest == SkipWs(From(a, n + 1))
    IN  IF rest # <<>> THEN rest
        ELSE IF n > 0 THEN SubSeq(a, 1, n)
        ELSE <<"%">>

\* re.search(...): [matched, g1, g2]
ReSearch(text) ==
    LET ds == {i \in 1..Len(text) : IsDigit(text[i])}
        no == [matched |-> FALSE, g1 |-> <<>>, g2 |-> <<>>]
    IN  IF ds = {} THEN no
        ELSE LET i    == SetMin(ds)
                 last == SetMax({j \in i..Len(text) :
                                   \A k \in i..j : IsDigit(text[k])})
                 \* \d+ is greedy and gives one digit back when nothing follows
                 e    == IF last < Len(text) THEN last ELSE last - 1
             IN  IF e < i THEN no
                 ELSE [matched |-> TRUE,
                       g1 |-> SubSeq(text, i, e),
                       g2 |-> Group2(From(text, e + 1))]

\* lines 134-146: text.strip(), the match, pct and category
ParseText(raw) ==
    LET m == ReSearch(Strip(raw))
    IN  IF ~m.matched THEN [matched |-> FALSE, pct |-> 0, category |-> <<>>]
        ELSE [matched |-> TRUE,
              pct |-> PyInt(m.g1).val,
              category |-> Capitalize(Strip(m.g2))]

----------------------------------------------------------------------------
(* The chats and users of the model: a private chat (its id is the user's)  *)
(* and a group chat (a negative id) with two users.  A conversation is      *)
(* keyed by (chat id, user id), a plan by the chat id alone.                *)

Chats == {7, -12}
Keys == {<<7, 7>>, <<-12, 8>>, <<-12, 9>>}
ChatOf(k) == k[1]

\* the messages users send as text
Texts == {
    <<"4", "0", "%", " ", "a">>,
    <<"6", "0", " ", "f", "o", "r", " ", "b">>,
    <<" ", "6", "1", " ", "t", "o", " ", "b">>,
    <<"0", "%", " ", "a">>,
    <<"1", "5", "0", " ", "a">>,
    <<"a", "7">> }

\* lines 134-146 for each text of the model, computed once
ParsedTexts == [raw \in Texts |-> ParseText(raw)]

----------------------------------------------------------------------------
(* Plans and the dict user_data                                            *)

EmptyPlan == [categories |-> <<>>, total |-> 0]

\* the tuple (category, pct) appended at line 167
Entry(category, pct) == [seq |-> "tuple", category |-> category, pct |-> pct]

\* user_data[c] = plan
\* (a variant that makes the dict anew with this one key)
PutAlone(ud, c, plan) == [k \in {c} |-> plan]
Put(ud, c, plan) ==
    [k \in DOMAIN ud \union {c} |-> IF k = c THEN plan ELSE ud[k]]

\* user_data.pop(c, None)
\* (a variant that clears the dict)
DropAll(ud, c) == <<>>
Drop(ud, c) == [k \in DOMAIN ud \ {c} |-> ud[k]]

EmptyDict == Drop(<<>>, 0)

----------------------------------------------------------------------------
(* JSON and the data file                                                  *)

\* json.dump writes a tuple and a list alike as an array
DumpEntry(e) == [seq |-> "array", category |-> e.category, pct |-> e.pct]

\* json.load reads an array as a list
LoadEntry(e) == [seq |-> "list", category |-> e.category, pct |-> e.pct]

DumpPlan(p) ==
    [categories |-> [i \in 1..Len(p.categories) |-> DumpEntry(p.categories[i])],
     total |-> p.total]

LoadPlan(p) ==
    [categories |-> [i \in 1..Len(p.categories) |-> LoadEntry(p.categories[i])],
     total |-> p.total]

\* line 44: {str(k): v for k, v in user_data.items()}
Serializable(ud) ==
    [s \in {PyStr(k) : k \in DOMAIN ud} |->
        ud[CHOOSE k \in DOMAIN ud : PyStr(k) = s]]

\* line 47: the document json.dump writes for a dict with str keys
JsonDump(d) == [s \in DOMAIN d |-> DumpPlan(d[s])]

\* line 34: the dict json.load returns for a document
JsonLoad(doc) == [s \in DOMAIN doc |-> LoadPlan(doc[s])]

\* what a file holds: nothing (no such file), a whole document, or the
\* beginning of one (an opened or half-written file)
Missing == [state |-> "missing", json |-> <<>>]
Partial == [state |-> "partial", json |-> <<>>]
Complete(doc) == [state |-> "complete", json |-> doc]

\* lines 30-38: [raised, data]; raised stands for the ValueError of int(k),
\* which the except clause does not catch
load_user_data(f) ==
    IF f.state # "complete"
    THEN [raised |-> FALSE, data |-> EmptyDict]
    ELSE LET data == JsonLoad(f.json)
         IN  IF \A s \in DOMAIN data : PyInt(s).ok
             THEN [raised |-> FALSE,
                   data |-> [k \in {PyInt(s).val : s \in DOMAIN data} |->
                       data[CHOOSE s \in DOMAIN data : PyInt(s).val = k]]]
             ELSE [raised |-> TRUE, data |-> EmptyDict]

\* lines 44-47: the document a save of ud writes
Snapshot(ud) == Complete(JsonDump(Serializable(ud)))

\* line 46: NamedTemporaryFile("w", ...) creates the file the dump goes to;
\* [file, tmp] afterwards
\* (a variant that opens DATA_FILE itself for writing)
InPlaceOpened(f, t) == [file |-> Partial, tmp |-> t]
TempOpened(f, t) == [file |-> f, tmp |-> Partial]

\* line 49: os.replace(tempname, DATA_FILE); [file, tmp] afterwards
\* (a variant that leaves DATA_FILE as it is)
ReplacedNowhere(f, t) == [file |-> f, tmp |-> Missing]
Replaced(f, t) == [file |-> t, tmp |-> Missing]

----------------------------------------------------------------------------
(* The handlers' synchronous code, as functions of the dict                *)

\* lines 56-69: get_summary
get_summary(ud, chat_id) ==
    IF chat_id \notin DOMAIN ud \/ ud[chat_id].categories = <<>>
    THEN [empty |-> TRUE, lines |-> <<>>, total |-> 0, remaining |-> 0]
    ELSE [empty |-> FALSE,
          lines |-> [i \in 1..Len(ud[chat_id].categories) |->
                       <<ud[chat_id].categories[i].category,
                         ud[chat_id].categories[i].pct>>],
          total |-> ud[chat_id].total,
          remaining |-> 100 - ud[chat_id].total]

\* what a handler's synchronous code yields: the outcome it replies with,
\* the dict it leaves, and the numbers its reply shows
Result(outcome, ud, pct, category, remaining) ==
    [outcome |-> outcome, data |-> ud, pct |-> pct, category |-> category,
     remaining |-> remaining]

\* lines 107-108: begin_strategy
\* (a variant that keeps a plan that is there)
BeginCoreKeep(ud, chat_id) ==
    Result("Started",
           IF chat_id \in DOMAIN ud THEN ud ELSE Put(ud, chat_id, EmptyPlan),
           0, <<>>, 100)
BeginCore(ud, chat_id) ==
    Result("Started", Put(ud, chat_id, EmptyPlan), 0, <<>>, 100)

\* line 148: the range check
\* (variants: without the upper bound; with 0 allowed)
InRangeWide(pct) == 0 < pct
InRangeZero(pct) == 0 <= pct /\ pct <= 100
InRange(pct) == 0 < pct /\ pct <= 100

\* line 160: the capacity check
\* (variants: off by one either way; the total alone)
OverCapacityOff(total, pct) == total + pct >= 100
OverCapacityLoose(total, pct) == total + pct > 101
OverCapacityNoPct(total, pct) == total > 100
OverCapacity(total, pct) == total + pct > 100

\* lines 167-168: the append and the new total
Appended(plan, category, pct) ==
    [categories |-> Append(plan.categories, Entry(category, pct)),
     total |-> plan.total + pct]

\* lines 137-168: handle_text from the match m of its text up to its save
AddEntry(ud, chat_id, m) ==
    LET ud1 == IF chat_id \in DOMAIN ud THEN ud ELSE Put(ud, chat_id, EmptyPlan)
        total == ud1[chat_id].total
    IN  IF ~m.matched THEN Result("ParseError", ud, 0, <<>>, 0)
        ELSE IF ~InRange(m.pct) THEN Result("RangeError", ud, m.pct, m.category, 0)
        ELSE IF OverCapacity(total, m.pct)
             THEN Result("CapacityError", ud1, m.pct, m.category, 100 - total)
        ELSE Result("Added",
                    Put(ud1, chat_id, Appended(ud1[chat_id], m.category, m.pct)),
                    m.pct, m.category, 100 - (total + m.pct))

\* lines 133-168: handle_text, for an update with a message, up to its save
HandleTextCore(ud, chat_id, raw) == AddEntry(ud, chat_id, ParsedTexts[raw])

\* lines 207-208: the pop and the new total
\* (a variant that pops the first entry)
PoppedFirst(plan) ==
    [categories |-> Tail(plan.categories),
     total |-> plan.total - plan.categories[1].pct]
Popped(plan) ==
    [categories |-> SubSeq(plan.categories, 1, Len(plan.categories) - 1),
     total |-> plan.total - plan.categories[Len(plan.categories)].pct]

\* lines 206-212: undo up to its save
\* (a variant that removes the chat with its last entry)
UndoCoreCollapse(ud, chat_id) ==
    IF chat_id \in DOMAIN ud /\ ud[chat_id].categories # <<>>
    THEN LET e == ud[chat_id].categories[Len(ud[chat_id].categories)]
         IN  Result("Undone",
                    IF Len(ud[chat_id].categories) = 1 THEN Drop(ud, chat_id)
                    ELSE Put(ud, chat_id, Popped(ud[chat_id])),
                    e.pct, e.category, 100 - Popped(ud[chat_id]).total)
    ELSE Result("NothingToUndo", ud, 0, <<>>, 0)
UndoCore(ud, chat_id) ==
    IF chat_id \in DOMAIN ud /\ ud[chat_id].categories # <<>>
    THEN LET e == ud[chat_id].categories[Len(ud[chat_id].categories)]
         IN  Result("Undone", Put(ud, chat_id, Popped(ud[chat_id])),
                    e.pct, e.category, 100 - Popped(ud[chat_id]).total)
    ELSE Result("NothingToUndo", ud, 0, <<>>, 0)

\* line 231: cancel
\* (a variant that empties the plan and keeps the key)
CancelCoreEmpty(ud, chat_id) ==
    Result("Reset", Put(ud, chat_id, EmptyPlan), 0, <<>>, 0)
CancelCore(ud, chat_id) == Result("Reset", Drop(ud, chat_id), 0, <<>>, 0)

\* lines 254-255: status_cmd
\* (a variant that reads the plan with setdefault)
StatusCoreSetdefault(ud, chat_id) ==
    LET ud1 == IF chat_id \in DOMAIN ud THEN ud ELSE Put(ud, chat_id, EmptyPlan)
    IN  Result(IF get_summary(ud1, chat_id).empty THEN "Empty" ELSE "Summary",
               ud1, 0, <<>>, get_summary(ud1, chat_id).remaining)
StatusCore(ud, chat_id) ==
    Result(IF get_summary(ud, chat_id).empty THEN "Empty" ELSE "Summary",
           ud, 0, <<>>, get_summary(ud, chat_id).remaining)

----------------------------------------------------------------------------
(* Routing: the handlers of main(), in the order they are added.  A kind   *)
(* stands for a command and for the button that reaches the same handler. *)

STRATEGY_EDIT == "STRATEGY_EDIT"
END == "END"

Kinds == {"start", "status", "strategy", "text", "add", "undo", "cancel"}

Handler(name, in_conversation) == [handler |-> name, inconv |-> in_conversation]

\* lines 264-290.  The ConversationHandler tries its entry points only when
\* the key has no conversation, and its states and fallbacks only when it
\* has one; what it does not take goes on to the handlers added after it.
Route(state, kind) ==
    IF kind = "start" THEN Handler("start", FALSE)
    ELSE IF kind = "status" THEN Handler("status_cmd", FALSE)
    ELSE IF state = END /\ kind = "strategy" THEN Handler("begin_strategy", TRUE)
    ELSE IF state = STRATEGY_EDIT /\ kind = "text" THEN Handler("handle_text", TRUE)
    ELSE IF state = STRATEGY_EDIT /\ kind = "add" THEN Handler("add_category", TRUE)
    ELSE IF state = STRATEGY_EDIT /\ kind = "cancel" THEN Handler("cancel", TRUE)
    ELSE IF kind = "undo" THEN Handler("undo", FALSE)
    ELSE IF kind = "cancel" THEN Handler("cancel", FALSE)
    ELSE Handler("none", FALSE)

----------------------------------------------------------------------------
(* The state machine                                                       *)

\* how many saves in a row may fail
MaxSaveFailures == 1

\* how many handlers may be between their first and last line at once
\* when updates are handled concurrently
MaxInFlight == 2

Idle == [pc |-> "idle", op |-> "none", inconv |-> FALSE, ret |-> "none"]

Running(pc, op, in_conversation, ret) ==
    [pc |-> pc, op |-> op, inconv |-> in_conversation, ret |-> ret]

\* the history record of an operation of key k
Outcome(op, k, r) ==
    [op |-> op, key |-> k, outcome |-> r.outcome, pct |-> r.pct,
     category |-> r.category, remaining |-> r.remaining]
NoOutcome ==
    [op |-> "none", key |-> <<0, 0>>, outcome |-> "none", pct |-> 0,
     category |-> <<>>, remaining |-> 0]

\* the history record of an added entry
Change(r) == [added |-> TRUE, category |-> r.category, pct |-> r.pct]
NoChange == [added |-> FALSE, category |-> <<>>, pct |-> 0]

\* line 53: user_data = load_user_data(), no file yet; no conversation,
\* no handler running.  Line 261 builds the Application without
\* concurrent_updates, so updates are handled one after the other.
InitWith(concurrent) ==
    /\ user_data = load_user_data(Missing).data
    /\ file = Missing
    /\ tmp = Missing
    /\ conv = [k \in Keys |-> END]
    /\ task = [k \in Keys |-> Idle]
    /\ out = NoOutcome
    /\ applied = [c \in Chats |-> NoChange]
    /\ failed_saves = 0
    /\ concurrent_updates = concurrent
    /\ process = "running"

Init == InitWith(FALSE)

\* the same program built with concurrent_updates(True): handlers of
\* different keys interleave at their awaits
InitConcurrent == InitWith(TRUE)

\* Code between two awaits runs without interruption by another handler.
InSave == \E j \in Keys : task[j].pc \in {"dump", "replace"}

\* an update of key k can be handed to a handler
CanDispatch(k) ==
    /\ process = "running"
    /\ task[k].pc = "idle"
    /\ ~InSave
    /\ Cardinality({j \in Keys : task[j].pc # "idle"})
          < (IF concurrent_updates THEN MaxInFlight ELSE 1)

\* the histories after the handler of k came to outcome r
Note(k, op, r) ==
    /\ out' = Outcome(op, k, r)
    /\ applied' = IF r.outcome \in {"Started", "Added", "Undone", "Reset"}
                  THEN [applied EXCEPT ![ChatOf(k)] =
                          IF r.outcome = "Added" THEN Change(r) ELSE NoChange]
                  ELSE applied

\* lines 42-46 of a save_user_data() call by the handler of k
BeginSave(k, op, in_conversation, ret) ==
    LET o == TempOpened(file, tmp)
    IN  /\ file' = o.file
        /\ tmp' = o.tmp
        /\ task' = [task EXCEPT ![k] = Running("dump", op, in_conversation, ret)]

\* lines 87-99: start, the greeting: no state of the model is touched
StartCmd(k) ==
    /\ CanDispatch(k)
    /\ Route(conv[k], "start").handler = "start"
    /\ UNCHANGED vars

\* lines 249-257: status_cmd
StatusCmd(k) ==
    /\ CanDispatch(k)
    /\ Route(conv[k], "status").handler = "status_cmd"
    /\ \E r \in {StatusCore(user_data, ChatOf(k))} :
           /\ user_data' = r.data
           /\ Note(k, "status_cmd", r)
    /\ UNCHANGED <<file, tmp, conv, task, failed_saves, concurrent_updates, process>>

\* lines 101-109: begin_strategy up to the write of its save
BeginStrategy(k) ==
    /\ CanDispatch(k)
    /\ Route(conv[k], "strategy").handler = "begin_strategy"
    /\ \E r \in {BeginCore(user_data, ChatOf(k))} :
           /\ user_data' = r.data
           /\ Note(k, "begin_strategy", r)
    /\ BeginSave(k, "begin_strategy", TRUE, STRATEGY_EDIT)
    /\ UNCHANGED <<conv, failed_saves, concurrent_updates, process>>

\* lines 127-169: handle_text up to the write of its save; a rejected text
\* is answered and the handler returns STRATEGY_EDIT, the state it is in
HandleText(k, raw) ==
    /\ CanDispatch(k)
    /\ Route(conv[k], "text").handler = "handle_text"
    /\ \E r \in {HandleTextCore(user_data, ChatOf(k), raw)} :
           /\ user_data' = r.data
           /\ Note(k, "handle_text", r)
           /\ IF r.outcome = "Added"
              THEN BeginSave(k, "handle_text", TRUE, "line176")
              ELSE UNCHANGED <<file, tmp, task>>
    /\ UNCHANGED <<conv, failed_saves, concurrent_updates, process>>

\* lines 129-131: handle_text for an update without a message (an edited
\* message passes filters.TEXT too): it returns STRATEGY_EDIT at once
HandleTextNoMessage(k) ==
    /\ CanDispatch(k)
    /\ Route(conv[k], "text").handler = "handle_text"
    /\ UNCHANGED vars

\* lines 190-197: add_category: a prompt, and the state stays STRATEGY_EDIT
AddCategory(k) ==
    /\ CanDispatch(k)
    /\ Route(conv[k], "add").handler = "add_category"
    /\ UNCHANGED vars

\* lines 199-212: undo up to the write of its save
Undo(k) ==
    /\ CanDispatch(k)
    /\ Route(conv[k], "undo").handler = "undo"
    /\ \E r \in {UndoCore(user_data, ChatOf(k))} :
           /\ user_data' = r.data
           /\ Note(k, "undo", r)
           /\ IF r.outcome = "Undone"
              THEN BeginSave(k, "undo", Route(conv[k], "undo").inconv, STRATEGY_EDIT)
              ELSE UNCHANGED <<file, tmp, task>>
    /\ UNCHANGED <<conv, failed_saves, concurrent_updates, process>>

\* lines 225-232: cancel up to the write of its save
Cancel(k) ==
    /\ CanDispatch(k)
    /\ Route(conv[k], "cancel").handler = "cancel"
    /\ \E r \in {CancelCore(user_data, ChatOf(k))} :
           /\ user_data' = r.data
           /\ Note(k, "cancel", r)
    /\ BeginSave(k, "cancel", Route(conv[k], "cancel").inconv, END)
    /\ UNCHANGED <<conv, failed_saves, concurrent_updates, process>>

\* an update no handler of main() takes: nothing runs
Unhandled(k, kind) ==
    /\ CanDispatch(k)
    /\ Route(conv[k], kind).handler = "none"
    /\ UNCHANGED vars

\* save_user_data() has returned.  What follows in a handler are its replies
\* and its return value: a handler of the ConversationHandler goes on to
\* Finish, which sets the key's state; the return value of a handler added
\* to the Application directly (lines 287-290) is dropped, so that handler
\* has nothing left to do to the state modelled here.
\* (a variant in which the handler ends with its save)
AfterSaveEnds(t) == Idle
AfterSave(t) == IF t.inconv THEN [t EXCEPT !.pc = "reply"] ELSE Idle

\* line 47 and the close of the with block: the snapshot is in the temporary file
SaveDump(k) ==
    /\ task[k].pc = "dump"
    /\ tmp' = Snapshot(user_data)
    /\ task' = [task EXCEPT ![k].pc = "replace"]
    /\ UNCHANGED <<user_data, file, conv, out, applied, failed_saves, concurrent_updates, process>>

\* lines 46-47 raise (disk full, ...): caught and logged at lines 50-51
SaveDumpFail(k) ==
    /\ task[k].pc = "dump"
    /\ failed_saves < MaxSaveFailures
    /\ failed_saves' = failed_saves + 1
    /\ tmp' = Missing
    /\ task' = [task EXCEPT ![k] = AfterSave(task[k])]
    /\ UNCHANGED <<user_data, file, conv, out, applied, concurrent_updates, process>>

\* line 49: os.replace
SaveReplace(k) ==
    /\ task[k].pc = "replace"
    /\ LET o == Replaced(file, tmp)
       IN  file' = o.file /\ tmp' = o.tmp
    /\ failed_saves' = 0
    /\ task' = [task EXCEPT ![k] = AfterSave(task[k])]
    /\ UNCHANGED <<user_data, conv, out, applied, concurrent_updates, process>>

\* line 49 raises: caught and logged at lines 50-51
SaveReplaceFail(k) ==
    /\ task[k].pc = "replace"
    /\ failed_saves < MaxSaveFailures
    /\ failed_saves' = failed_saves + 1
    /\ tmp' = Missing
    /\ task' = [task EXCEPT ![k] = AfterSave(task[k])]
    /\ UNCHANGED <<user_data, file, conv, out, applied, concurrent_updates, process>>

\* lines 176-188: what handle_text returns after its reply
\* (a variant that compares with >)
AfterReplyOver(ud, chat_id, state) ==
    IF chat_id \notin DOMAIN ud THEN state
    ELSE IF ud[chat_id].total > 100 THEN END
    ELSE STRATEGY_EDIT
AfterReply(ud, chat_id, state) ==
    IF chat_id \notin DOMAIN ud THEN state      \* KeyError: the state stays
    ELSE IF ud[chat_id].total = 100 THEN END
    ELSE STRATEGY_EDIT

\* the replies after the save are sent and the handler returns; a handler
\* of the ConversationHandler sets the key's state by what it returns
Finish(k) ==
    /\ task[k].pc = "reply"
    /\ ~InSave
    /\ conv' = [conv EXCEPT ![k] =
                  IF ~task[k].inconv THEN conv[k]
                  ELSE IF task[k].ret = "line176"
                       THEN AfterReply(user_data, ChatOf(k), conv[k])
                  ELSE task[k].ret]
    /\ task' = [task EXCEPT ![k] = Idle]
    /\ UNCHANGED <<user_data, file, tmp, out, applied, failed_saves, concurrent_updates, process>>

\* the process dies, at any point, and is started again: line 53 loads the
\* file, conversations and running handlers are gone, files stay.  When the
\* load raises, the process ends at line 53 and there is no dict.
Restart ==
    /\ user_data' = load_user_data(file).data
    /\ process' = IF load_user_data(file).raised THEN "aborted" ELSE "running"
    /\ conv' = [k \in Keys |-> END]
    /\ task' = [k \in Keys |-> Idle]
    /\ out' = NoOutcome
    /\ applied' = [c \in Chats |-> NoChange]
    /\ tmp' = Missing
    /\ failed_saves' = 0
    /\ UNCHANGED <<file, concurrent_updates>>

Next ==
    \/ \E k \in Keys : StartCmd(k)
    \/ \E k \in Keys : StatusCmd(k)
    \/ \E k \in Keys : BeginStrategy(k)
    \/ \E k \in Keys, raw \in Texts : HandleText(k, raw)
    \/ \E k \in Keys : HandleTextNoMessage(k)
    \/ \E k \in Keys : AddCategory(k)
    \/ \E k \in Keys : Undo(k)
    \/ \E k \in Keys : Cancel(k)
    \/ \E k \in Keys, kind \in Kinds : Unhandled(k, kind)
    \/ \E k \in Keys : SaveDump(k)
    \/ \E k \in Keys : SaveDumpFail(k)
    \/ \E k \in Keys : SaveReplace(k)
    \/ \E k \in Keys : SaveReplaceFail(k)
    \/ \E k \in Keys : Finish(k)
    \/ Restart

Spec == Init /\ [][Next]_vars

SpecConcurrent == InitConcurrent /\ [][Next]_vars

----------------------------------------------------------------------------
(* The start of the process on a DATA_FILE it did not write itself          *)

\* the keys of the documents found: two that str() of a chat id gives, one
\* with whitespace, which int() accepts, and one that is no number
KeyStrs == {<<"7">>, <<"-", "1", "2">>, <<" ", "8">>, <<"x", "7">>}

\* the plans found under a key
StoredPlans ==
    {DumpPlan(EmptyPlan), DumpPlan(Appended(EmptyPlan, <<"A">>, 40))}

\* the files found: none, one json.load cannot decode, and the documents
\* over these keys and plans
StoredFiles ==
    {Missing, Partial} \union
    UNION {{Complete(doc) : doc \in [S -> StoredPlans]} : S \in SUBSET KeyStrs}

\* the process before line 53 has run
InitLoad ==
    /\ file \in StoredFiles
    /\ process = "starting"
    /\ user_data = EmptyDict
    /\ tmp = Missing
    /\ conv = [k \in Keys |-> END]
    /\ task = [k \in Keys |-> Idle]
    /\ out = NoOutcome
    /\ applied = [c \in Chats |-> NoChange]
    /\ failed_saves = 0
    /\ concurrent_updates = FALSE

\* line 53 runs (and runs again whenever the process is started again)
NextLoad == Restart

SpecLoad == InitLoad /\ [][NextLoad]_vars

----------------------------------------------------------------------------
(* Properties                                                              *)

RECURSIVE SumPct(_)
SumPct(entries) ==
    IF entries = <<>> THEN 0
    ELSE entries[Len(entries)].pct + SumPct(SubSeq(entries, 1, Len(entries) - 1))

\* the plan of a chat, an absent one as the plan line 157 would make
PlanOf(ud, c) == IF c \in DOMAIN ud THEN ud[c] ELSE EmptyPlan

\* the same (category, percent) in the same order and the same total
SamePlan(p, q) ==
    /\ p.total = q.total
    /\ Len(p.categories) = Len(q.categories)
    /\ \A i \in 1..Len(p.categories) :
          /\ p.categories[i].category = q.categories[i].category
          /\ p.categories[i].pct = q.categories[i].pct

SameMapping(a, b) ==
    /\ DOMAIN a = DOMAIN b
    /\ \A c \in DOMAIN a : SamePlan(a[c], b[c])

\* the chat's plan ends with the entry a
EndsWith(ud, c, a) ==
    /\ c \in DOMAIN ud
    /\ ud[c].categories # <<>>
    /\ ud[c].categories[Len(ud[c].categories)].category = a.category
    /\ ud[c].categories[Len(ud[c].categories)].pct = a.pct

\* C1: every plan of user_data has a total between 0 and 100 that is the sum
\* of the percents of its entries.
C1_PlanInvariant ==
    \A c \in DOMAIN user_data :
        /\ 0 <= user_data[c].total
        /\ user_data[c].total <= 100
        /\ user_data[c].total = SumPct(user_data[c].categories)

\* one chat's plan completed by two adds, the other's back at 40 by an undo
C1_Witness ==
    /\ out.op = "undo" /\ out.outcome = "Undone"
    /\ PlanOf(user_data, ChatOf(out.key)).total = 40
    /\ Len(PlanOf(user_data, ChatOf(out.key)).categories) = 1
    /\ \E c \in DOMAIN user_data :
          /\ Len(user_data[c].categories) = 2
          /\ user_data[c].total = 100

\* C2: when the latest changes of two different chats' plans are adds, no
\* save is in progress and the latest save did not fail, the entry each add
\* appended is the last entry of its chat's plan in user_data and in the
\* dict that load_user_data() makes of the file.
C2_NoLostUpdate ==
    \A c1 \in Chats, c2 \in Chats :
        (/\ c1 # c2
         /\ applied[c1].added /\ applied[c2].added
         /\ ~InSave /\ failed_saves = 0)
        => /\ EndsWith(user_data, c1, applied[c1])
           /\ EndsWith(user_data, c2, applied[c2])
           /\ ~load_user_data(file).raised
           /\ EndsWith(load_user_data(file).data, c1, applied[c1])
           /\ EndsWith(load_user_data(file).data, c2, applied[c2])

\* two handle_text calls of different chats, both past their save and
\* neither returned yet, each having added an entry
C2_Witness ==
    \E k1 \in Keys, k2 \in Keys :
        /\ ChatOf(k1) # ChatOf(k2)
        /\ task[k1].op = "handle_text" /\ task[k1].pc = "reply"
        /\ task[k2].op = "handle_text" /\ task[k2].pc = "reply"
        /\ applied[ChatOf(k1)].added /\ applied[ChatOf(k2)].added
        /\ failed_saves = 0
        /\ EndsWith(load_user_data(file).data, ChatOf(k1), applied[ChatOf(k1)])
        /\ EndsWith(load_user_data(file).data, ChatOf(k2), applied[ChatOf(k2)])

\* C3: every step, a crash and restart included, leaves DATA_FILE as it was
\* or makes it the complete snapshot of user_data that the save in progress
\* wrote; it never holds the beginning of a document.
C3_SaveAtomic ==
    [][/\ file'.state # "partial"
       /\ \/ file' = file
          \/ InSave /\ file' = Snapshot(user_data)]_vars

\* a save between its write and its replace: the temporary file holds the
\* new snapshot, DATA_FILE still the complete previous one
C3_Witness ==
    \E k \in Keys :
        /\ task[k].pc = "replace"
        /\ tmp = Snapshot(user_data)
        /\ file.state = "complete"
        /\ file # tmp

\* C4: loading the document a save of user_data writes gives a dict with the
\* same chat ids, and for each the same entries in the same order and the
\* same total (an entry comes back as a list, not as the tuple it was).
C4_RoundTrip ==
    /\ ~load_user_data(Snapshot(user_data)).raised
    /\ SameMapping(load_user_data(Snapshot(user_data)).data, user_data)

\* after a restart: both chats' plans, two entries in one, came from the file
C4_Witness ==
    /\ out = NoOutcome
    /\ file = Snapshot(user_data)
    /\ DOMAIN user_data = Chats
    /\ \E c \in Chats : Len(user_data[c].categories) = 2
    /\ \A c \in Chats :
          /\ user_data[c].categories # <<>>
          /\ \A i \in 1..Len(user_data[c].categories) :
                user_data[c].categories[i].seq = "list"

Rejections == {"ParseError", "RangeError", "CapacityError", "NothingToUndo"}

\* the handler of k has just been handed an update that made it begin a save
Began(k, op) ==
    task[k].pc = "idle" /\ task'[k].pc = "dump" /\ task'[k].op = op

\* C5: a handle_text call that rejects its text and an undo that finds
\* nothing to undo leave user_data as it was, the chat's presence in it
\* included, start no save and leave the files as they were.  (Updates are
\* handled one at a time, so every step into a state whose latest operation
\* was rejected is that operation or one that changes nothing.)
C5_FailureChangesNothing ==
    [][out'.outcome \in Rejections
          => /\ user_data' = user_data
             /\ file' = file
             /\ tmp' = tmp
             /\ task' = task
             /\ failed_saves' = failed_saves]_vars

\* an add rejected for capacity, the plan at 60 in memory and in the file
C5_Witness ==
    /\ out.op = "handle_text" /\ out.outcome = "CapacityError"
    /\ out.remaining = 40
    /\ PlanOf(user_data, ChatOf(out.key)).total = 60
    /\ file = Snapshot(user_data)
    /\ \A k \in Keys : task[k] = Idle

\* the match of a text that asks for p percent
Match(p) == [matched |-> TRUE, pct |-> p, category |-> <<"A">>]

\* C6: for every chat whose plan has a total t < 100, adding 100 - t is
\* accepted and brings the total to 100, and adding 100 - t + 1, when that is
\* at most 100, is rejected for capacity with remaining = 100 - t and leaves
\* the dict as it is; and a handle_text call that was rejected for capacity
\* reported the remaining capacity of its chat's plan.
C6_Boundary ==
    /\ \A c \in Chats :
          LET t == PlanOf(user_data, c).total
          IN  t < 100 =>
                /\ AddEntry(user_data, c, Match(100 - t)).outcome = "Added"
                /\ AddEntry(user_data, c, Match(100 - t)).data[c].total = 100
                /\ (100 - t + 1 <= 100) =>
                      /\ AddEntry(user_data, c, Match(100 - t + 1)).outcome
                            = "CapacityError"
                      /\ AddEntry(user_data, c, Match(100 - t + 1)).remaining
                            = 100 - t
                      /\ AddEntry(user_data, c, Match(100 - t + 1)).data
                            = user_data
    /\ out.outcome = "CapacityError" =>
          /\ out.remaining = 100 - PlanOf(user_data, ChatOf(out.key)).total
          /\ out.pct > out.remaining
    /\ out.outcome = "Added" =>
          out.remaining = 100 - PlanOf(user_data, ChatOf(out.key)).total

\* the plan at 40, and a text asking for 61 rejected with 60 remaining
C6_Witness ==
    /\ out.op = "handle_text" /\ out.outcome = "CapacityError"
    /\ out.pct = 61 /\ out.remaining = 60
    /\ PlanOf(user_data, ChatOf(out.key)).total = 40

\* the matches of the model's texts that pass the range check, and the
\* sequences of them that can all be accepted (no three of them fit in 100)
Matches == {m \in {ParsedTexts[raw] : raw \in Texts} : m.matched /\ InRange(m.pct)}
AddSeqs == {<<m>> : m \in Matches} \union (Matches \X Matches)

\* the adds of ms applied in order: [ok, data], ok when each was accepted
RECURSIVE AddAll(_, _, _)
AddAll(ud, c, ms) ==
    IF ms = <<>> THEN [ok |-> TRUE, data |-> ud]
    ELSE LET r == AddEntry(ud, c, Head(ms))
         IN  IF r.outcome = "Added" THEN AddAll(r.data, c, Tail(ms))
             ELSE [ok |-> FALSE, data |-> ud]

RECURSIVE UndoN(_, _, _)
UndoN(ud, c, n) == IF n = 0 THEN ud ELSE UndoN(UndoCore(ud, c).data, c, n - 1)

\* C7: in every state, for every chat: after every sequence of accepted
\* adds, as many undos give back the dict as it was (an absent plan as the
\* empty plan), the first of them reporting the entry added last; and an
\* undo of the plan as it is removes its last entry, and only it, takes that
\* entry's percent off the total and leaves the other chats' plans alone.
C7_Lifo ==
    \A c \in Chats :
        /\ \A ms \in AddSeqs :
              \E a \in {AddAll(user_data, c, ms)} :
                 a.ok =>
                    /\ UndoN(a.data, c, Len(ms))
                          = Put(user_data, c, PlanOf(user_data, c))
                    /\ UndoCore(a.data, c).outcome = "Undone"
                    /\ UndoCore(a.data, c).pct = ms[Len(ms)].pct
                    /\ UndoCore(a.data, c).category = ms[Len(ms)].category
        /\ PlanOf(user_data, c).categories # <<>> =>
              \E old \in {user_data[c]}, r \in {UndoCore(user_data, c)} :
                 /\ r.outcome = "Undone"
                 /\ old.categories =
                       Append(r.data[c].categories, old.categories[Len(old.categories)])
                 /\ r.data[c].total =
                       old.total - old.categories[Len(old.categories)].pct
                 /\ r.pct = old.categories[Len(old.categories)].pct
                 /\ r.data = Put(user_data, c, r.data[c])
        /\ (out.op = "undo" /\ out.outcome = "Undone" /\ ChatOf(out.key) = c) =>
              out.remaining = 100 - PlanOf(user_data, c).total

\* two adds, 40 then 60, and an undo: the 60 is gone, the 40 is the plan
C7_Witness ==
    /\ out.op = "undo" /\ out.outcome = "Undone" /\ out.pct = 60
    /\ PlanOf(user_data, ChatOf(out.key)) =
          [categories |-> <<Entry(<<"A">>, 40)>>, total |-> 40]

\* C8: after an undo of a plan that was at 100, a text of the same key is
\* handed to handle_text.
C8_UndoReopens ==
    (/\ out.op = "undo" /\ out.outcome = "Undone"
     /\ out.remaining = out.pct)
    => Route(conv[out.key], "text").handler = "handle_text"

\* C9: cancel is taken in every conversation state and removes the chat from
\* user_data; a status_cmd of a chat whose cancel was the operation before
\* it answers that there are no categories.
C9_Reset ==
    [][/\ \A k \in Keys :
             /\ Route(conv'[k], "cancel").handler = "cancel"
             /\ Began(k, "cancel") =>
                   /\ ChatOf(k) \notin DOMAIN user_data'
                   /\ out'.outcome = "Reset"
       /\ (/\ out.op = "cancel" /\ out'.op = "status_cmd"
           /\ ChatOf(out.key) = ChatOf(out'.key))
          => out'.outcome = "Empty"]_vars

\* a cancel of a plan that was at 100: gone from user_data, the save of the
\* cancel not yet written, the file still holding the plan
C9_Witness ==
    /\ out.op = "cancel" /\ out.outcome = "Reset"
    /\ ChatOf(out.key) \notin DOMAIN user_data
    /\ \E k \in Keys : task[k].pc = "dump" /\ task[k].op = "cancel"
    /\ ~load_user_data(file).raised
    /\ PlanOf(load_user_data(file).data, ChatOf(out.key)).total = 100

\* C10: a status_cmd leaves user_data and the files as they were, and a
\* cancel of a chat that is not in user_data leaves user_data as it was.
\* (Updates are handled one at a time, so every step into a state whose
\* latest operation is a status_cmd is that operation or changes nothing.)
C10_QueryIsPure ==
    [][/\ out'.op = "status_cmd" =>
             /\ user_data' = user_data
             /\ file' = file
             /\ tmp' = tmp
       /\ \A k \in Keys :
             (Began(k, "cancel") /\ ChatOf(k) \notin DOMAIN user_data)
                => user_data' = user_data]_vars

\* a status_cmd answered with a summary of a plan at 100
C10_Witness ==
    /\ out.op = "status_cmd" /\ out.outcome = "Summary"
    /\ out.remaining = 0
    /\ PlanOf(user_data, ChatOf(out.key)).total = 100

\* no handler is between its first and its last line
Quiet == \A k \in Keys : task[k].pc = "idle"

\* C11: whenever no handler is running and the latest save did not fail (so
\* also when none ever failed), loading DATA_FILE gives the mapping that is
\* in memory, and a restart there leaves every plan as it was; an operation
\* that changes user_data begins a save, and a handler's save is begun only
\* when the handler is called, written once and replaced once.
C11_Durable ==
    /\ []((process = "running" /\ Quiet /\ failed_saves = 0) =>
             /\ ~load_user_data(file).raised
             /\ SameMapping(load_user_data(file).data, user_data))
    /\ [][/\ (user_data' # user_data /\ out' # NoOutcome) =>
               \E k \in Keys : Began(k, out'.op)
          /\ \A k \in Keys :
               /\ (task'[k].pc = "dump" /\ task[k].pc # "dump") =>
                      task[k].pc = "idle"
               /\ (task'[k].pc = "replace" /\ task[k].pc # "replace") =>
                      task[k].pc = "dump"
               /\ task[k].pc = "reply" => task'[k].pc \in {"reply", "idle"}
          /\ (Quiet /\ failed_saves = 0 /\ out' = NoOutcome) =>
               SameMapping(user_data', user_data)]_vars

\* nothing running, one chat's plan complete by the latest add, the other's
\* in progress at 40, and the file the snapshot of both
C11_Witness ==
    /\ Quiet /\ failed_saves = 0
    /\ out.op = "handle_text" /\ out.outcome = "Added" /\ out.remaining = 0
    /\ \E c \in DOMAIN user_data :
          c # ChatOf(out.key) /\ user_data[c].total = 40
    /\ file = Snapshot(user_data)

\* C12: once line 53 has run the process is running, and user_data holds a
\* plan for exactly the keys of the document that int() converts.
C12_LoadNeverAborts ==
    process # "starting" =>
        /\ process = "running"
        /\ DOMAIN user_data =
              IF file.state = "complete"
              THEN {PyInt(key).val : key \in {ks \in DOMAIN file.json : PyInt(ks).ok}}
              ELSE {}

\* C13: a save that raises leaves user_data, the operation's outcome and
\* DATA_FILE, which is no half-written document, as they were, and the
\* handler goes on to what it returns; and after a save that does not raise,
\* loading DATA_FILE gives the mapping that is in memory.
C13_SaveFailureCaught ==
    [][\A k \in Keys :
          /\ (task[k].pc \in {"dump", "replace"}
                 /\ failed_saves' = failed_saves + 1) =>
                /\ user_data' = user_data
                /\ out' = out
                /\ file' = file
                /\ file.state # "partial"
                /\ process' = "running"
                /\ task'[k] = IF task[k].inconv
                              THEN [task[k] EXCEPT !.pc = "reply"]
                              ELSE Idle
          /\ (task[k].pc = "replace" /\ task'[k].pc # "replace"
                 /\ failed_saves' = 0 /\ out' # NoOutcome) =>
                /\ ~load_user_data(file').raised
                /\ SameMapping(load_user_data(file').data, user_data')]_vars

\* the save of an add raised: the handler is at its reply, the entry is in
\* user_data and not in the file
C13_Witness ==
    /\ failed_saves = 1
    /\ out.op = "handle_text" /\ out.outcome = "Added"
    /\ task[out.key].pc = "reply"
    /\ EndsWith(user_data, ChatOf(out.key), applied[ChatOf(out.key)])
    /\ ~EndsWith(load_user_data(file).data, ChatOf(out.key),
                 applied[ChatOf(out.key)])

\* C14: for every plan with total 100 and every percent from 1 to 100, an
\* add is rejected for capacity and leaves the dict as it is; and an
\* operation that changes such a plan or removes it is an undo, a cancel or a
\* begin_strategy of that chat.  (A crash is no operation: a restart can
\* bring back the plan the file holds.)
C14_CompleteIsReadOnly ==
    /\ [](\A c \in DOMAIN user_data :
             user_data[c].total = 100 =>
                \A p \in 1..100 :
                   \E r \in {AddEntry(user_data, c, Match(p))} :
                      /\ r.outcome = "CapacityError"
                      /\ r.remaining = 0
                      /\ r.data = user_data)
    /\ [][\A c \in DOMAIN user_data :
             (/\ user_data[c].total = 100
              /\ out' # NoOutcome
              /\ PlanOf(user_data', c) # user_data[c] \/ c \notin DOMAIN user_data')
             => /\ out'.op \in {"undo", "cancel", "begin_strategy"}
                /\ ChatOf(out'.key) = c]_vars

\* a text of a user of the group whose plan another user completed: rejected
\* with nothing remaining
C14_Witness ==
    /\ out.op = "handle_text" /\ out.outcome = "CapacityError"
    /\ out.remaining = 0
    /\ PlanOf(user_data, ChatOf(out.key)).total = 100
    /\ Len(PlanOf(user_data, ChatOf(out.key)).categories) = 2

\* C15: in every state, a /strategy (or the start button) of any key is
\* handed to begin_strategy.
C15_StartAnyState ==
    \A k \in Keys : Route(conv[k], "strategy").handler = "begin_strategy"

\* C16: an operation of one chat leaves every other chat as it is in
\* user_data, present or absent and with the same plan; and after a save
\* that did not raise, the file holds for every other chat the plan it has
\* in user_data, and no plan when it has none.
C16_SessionsIndependent ==
    [][/\ out' # NoOutcome =>
             \A c \in Chats \ {ChatOf(out'.key)} :
                /\ c \in DOMAIN user_data' <=> c \in DOMAIN user_data
                /\ c \in DOMAIN user_data => user_data'[c] = user_data[c]
       /\ \A k \in Keys :
             (/\ task[k].pc = "replace" /\ task'[k].pc # "replace"
              /\ failed_saves' = 0 /\ out' # NoOutcome)
             => \E ld \in {load_user_data(file')} :
                   /\ ~ld.raised
                   /\ \A c \in Chats \ {ChatOf(k)} :
                         /\ c \in DOMAIN ld.data <=> c \in DOMAIN user_data'
                         /\ c \in DOMAIN user_data' =>
                               SamePlan(ld.data[c], user_data'[c])]_vars

\* a cancel of one chat, saved: the other chat's plan of two entries is in
\* user_data and in the file, the cancelled chat in neither
C16_Witness ==
    /\ Quiet /\ failed_saves = 0
    /\ out.op = "cancel"
    /\ DOMAIN user_data = Chats \ {ChatOf(out.key)}
    /\ DOMAIN load_user_data(file).data = DOMAIN user_data
    /\ \A c \in DOMAIN user_data :
          /\ Len(user_data[c].categories) = 2
          /\ SamePlan(load_user_data(file).data[c], user_data[c])

\* C17: an undo of a plan with one entry leaves the chat in user_data with
\* the empty plan; and an operation after which a chat is no longer in
\* user_data is a cancel of that chat.  (A crash is no operation: after a
\* restart user_data holds the chats of the file.)
C17_RemovedOnlyByReset ==
    /\ [](\A c \in DOMAIN user_data :
             Len(user_data[c].categories) = 1 =>
                /\ UndoCore(user_data, c).outcome = "Undone"
                /\ UndoCore(user_data, c).data = Put(user_data, c, EmptyPlan))
    /\ [][\A c \in DOMAIN user_data :
             (c \notin DOMAIN user_data' /\ out' # NoOutcome)
             => /\ out'.op = "cancel"
                /\ ChatOf(out'.key) = c]_vars

\* an undo took the only entry: the chat is there with the empty plan
C17_Witness ==
    /\ out.op = "undo" /\ out.outcome = "Undone" /\ out.remaining = 100
    /\ ChatOf(out.key) \in DOMAIN user_data
    /\ user_data[ChatOf(out.key)] = EmptyPlan

\* C18: every entry of every plan has a percent from 1 to 100; an add of 0,
\* of 101 or of 150 percent is rejected with RangeError for every chat and
\* leaves the dict as it is, a chat without a plan without one; and so does
\* every handle_text call that ends in RangeError.
C18_PercentInRange ==
    /\ [](\A c \in DOMAIN user_data :
             \A i \in 1..Len(user_data[c].categories) :
                user_data[c].categories[i].pct \in 1..100)
    /\ [](\A c \in Chats, p \in {0, 101, 150} :
             /\ AddEntry(user_data, c, Match(p)).outcome = "RangeError"
             /\ AddEntry(user_data, c, Match(p)).data = user_data)
    /\ [][out'.outcome = "RangeError" => user_data' = user_data]_vars

\* a text asking for 150 percent, rejected, its chat not in user_data
C18_Witness ==
    /\ out.op = "handle_text" /\ out.outcome = "RangeError"
    /\ out.pct = 150
    /\ ChatOf(out.key) \notin DOMAIN user_data

\* C19: when a handle_text call that added an entry returns, it ends the
\* conversation (the plan is complete) if the total its add made is 100, and
\* stays in STRATEGY_EDIT if not; and the total it reads at line 176 is the
\* total its add made.  (Updates are handled one at a time: between the add
\* and the return of its handler no other handler runs.)
C19_CompletionDecision ==
    [][\A k \in Keys :
          (/\ task[k].pc = "reply" /\ task[k].op = "handle_text"
           /\ task'[k].pc = "idle"
           /\ out' = out)
          => /\ out.key = k /\ out.op = "handle_text" /\ out.outcome = "Added"
             /\ PlanOf(user_data, ChatOf(k)).total = 100 - out.remaining
             /\ out.remaining = 0 => conv'[k] = END
             /\ out.remaining # 0 => conv'[k] = STRATEGY_EDIT]_vars

\* the add that made the total 100 has returned and ended its conversation,
\* while another user of the same chat is still in STRATEGY_EDIT
C19_Witness ==
    /\ Quiet
    /\ out.op = "handle_text" /\ out.outcome = "Added" /\ out.remaining = 0
    /\ conv[out.key] = END
    /\ \E k \in Keys :
          /\ k # out.key /\ ChatOf(k) = ChatOf(out.key)
          /\ conv[k] = STRATEGY_EDIT

\* C20: a text is handed to handle_text only for a key whose conversation is
\* in STRATEGY_EDIT; a conversation enters STRATEGY_EDIT only when a
\* begin_strategy of its key returns, and leaves it only when a cancel
\* returns, when a handle_text returns with the plan at 100, or when the
\* process is started again; and no entry is added to a plan that holds an
\* entry loaded from the file.
C20_AddsGated ==
    /\ [](\A c \in DOMAIN user_data :
             \A i, j \in 1..Len(user_data[c].categories) :
                user_data[c].categories[i].seq = user_data[c].categories[j].seq)
    /\ [][\A k \in Keys :
             /\ (out'.op = "handle_text" /\ out'.key = k /\ out' # out) =>
                   conv[k] = STRATEGY_EDIT
             /\ (conv[k] = END /\ conv'[k] = STRATEGY_EDIT) =>
                   /\ task[k].op = "begin_strategy"
                   /\ task[k].pc = "reply"
             /\ (conv[k] = STRATEGY_EDIT /\ conv'[k] = END /\ out' # NoOutcome) =>
                   /\ task[k].pc = "reply"
                   /\ \/ task[k].op = "cancel"
                      \/ /\ task[k].op = "handle_text"
                         /\ PlanOf(user_data, ChatOf(k)).total = 100]_vars

\* after a restart: one chat's plan, loaded from the file and at 40, gets no
\* text (no key of the chat is in a conversation), while the other chat,
\* started anew, has had an entry added
C20_Witness ==
    /\ out.op = "handle_text" /\ out.outcome = "Added"
    /\ \E c \in DOMAIN user_data :
          /\ c # ChatOf(out.key)
          /\ user_data[c].total = 40
          /\ user_data[c].categories[1].seq = "list"
          /\ \A k \in Keys :
                ChatOf(k) = c => Route(conv[k], "text").handler = "none"

====
